---- MODULE Spec2Model ----
(***************************************************************************)
(* shopify-status-rss: the observation job (cronJob), the page parser,     *)
(* the fingerprint, the CronLock table behind PostgresLocker and the Feed  *)
(* table, shared by NumProcs process instances.                            *)
(***************************************************************************)
EXTENDS Integers, Sequences, FiniteSets, TLC

(* ------------------------------ bounds --------------------------------- *)
NumProcs == 2
MaxInvocations == 4
MaxOverlap == 2
MaxPageChanges == 1
MaxFaults == 1
MaxNames == 3
MaxIcons == 3
MaxLimit == 2

Procs == 1..NumProcs

(* ------------------------------ catalog -------------------------------- *)
Nil == "nil"
RecordNotFound == "record not found"
StoreError == "store error"
DuplicateKey == "duplicate key"
FetchError == "error fetching status page"
Non200Error == "status page returned status code"
ServiceMismatch == "the number of services on the page does not match"
StatusMismatch == "the number of status icons on the page does not match"
AlreadyInUse == "cannot obtain cron lock. key already in use"
ErrorObtaining == "error obtaining cron lock"
CheckStatus == "check-status"
OperationalTitle == "All services appear to be operational"

\* the first rows of the seed data, in primary-key order: what queryServices
\* and queryStatuses return once the seed has been loaded
Services == << [ServiceName |-> "Admin"], [ServiceName |-> "Checkout"] >>

Statuses ==
  << [Status |-> "Operational", ClassName |-> "text-operational", IsError |-> FALSE],
     [Status |-> "Major Outage", ClassName |-> "text-major-outage", IsError |-> TRUE] >>

\* strings.Compare on the service names that occur: their byte order
NameOrder == << "Admin", "Checkout" >>

NameRank(name) == CHOOSE i \in 1..Len(NameOrder) : NameOrder[i] = name

Compare(a, b) ==
  IF NameRank(a) < NameRank(b) THEN -1 ELSE IF NameRank(a) > NameRank(b) THEN 1 ELSE 0

(* ------------------------------ documents ------------------------------ *)
\* A document is what the two selectors see: the texts of "div.flex-col > p"
\* and the class sets of "div.flex-col i", each in document order.
Doc(names, icons) == [names |-> names, icons |-> icons]

Op == {"text-operational"}
Out == {"text-major-outage", "fa"}
Deco == {"fa"}

PageOK == Doc(<<"Admin", "Checkout">>, <<Op, Op>>)
PageErr == Doc(<<"Checkout", "Welcome", "Admin">>, <<Op, Out>>)
PageShort == Doc(<<"Admin">>, <<Op, Op>>)
PageNoIcon == Doc(<<"Admin", "Checkout">>, <<Op, Deco>>)
PageEmpty == Doc(<<"Welcome">>, <<>>)

Pages == {PageOK, PageErr, PageShort, PageNoIcon, PageEmpty}

\* every document of up to MaxNames name elements and MaxIcons icon elements
NameTexts == {"Admin", "Checkout", "Welcome"}

IconClasses == {Op, Out, Deco}

SeqsUpTo(S, n) == UNION {[1..k -> S] : k \in 0..n}

AllDocs ==
  {Doc(ns, is) : ns \in SeqsUpTo(NameTexts, MaxNames),
                 is \in SeqsUpTo(IconClasses, MaxIcons)}

(* ------------------------------ parser --------------------------------- *)
\* A ParsedStatus holds two pointers into the slices cronJob was given:
\* Service and Status are positions in them, 0 is nil. The slices are the
\* seed rows or empty, so a position in a slice is the position of the same
\* row in Services and Statuses.
NilPtr == 0

\* the service whose name the text of a name element is, or nil
MatchService(text, services) ==
  IF \E k \in 1..Len(services) : services[k].ServiceName = text
  THEN CHOOSE k \in 1..Len(services) :
         /\ services[k].ServiceName = text
         /\ \A j \in 1..(k - 1) : services[j].ServiceName # text
  ELSE NilPtr

\* first loop: one entry per matching name element, Status unset
RECURSIVE CollectServices(_, _)
CollectServices(names, services) ==
  IF names = <<>> THEN <<>>
  ELSE LET rest == CollectServices(SubSeq(names, 1, Len(names) - 1), services)
           svc == MatchService(names[Len(names)], services)
       IN IF svc = NilPtr THEN rest
          ELSE Append(rest, [Service |-> svc, Status |-> NilPtr])

\* the first status whose class the icon element has, or nil
MatchStatus(icon, statuses) ==
  IF \E k \in 1..Len(statuses) : statuses[k].ClassName \in icon
  THEN CHOOSE k \in 1..Len(statuses) :
         /\ statuses[k].ClassName \in icon
         /\ \A j \in 1..(k - 1) : statuses[j].ClassName \notin icon
  ELSE NilPtr

\* second loop over the first n icon elements, giving [result, gotCount, panic].
\* The element at 0-based position i = n - 1 is assigned only when
\* i < wantServiceCount; result[i] past the end of result is an
\* index-out-of-range panic.
\* every entry given the status of the first icon element
AssignStatuses_FirstIcon(icons, n, result, wantServiceCount, statuses) ==
  IF icons = <<>> THEN [result |-> result, gotCount |-> 0, panic |-> FALSE]
  ELSE [result |-> [i \in 1..Len(result) |->
                      [result[i] EXCEPT !.Status = MatchStatus(icons[1], statuses)]],
        gotCount |-> Len(result),
        panic |-> FALSE]

RECURSIVE AssignStatuses(_, _, _, _, _)
AssignStatuses(icons, n, result, wantServiceCount, statuses) ==
  IF n = 0 THEN [result |-> result, gotCount |-> 0, panic |-> FALSE]
  ELSE LET prev == AssignStatuses(icons, n - 1, result, wantServiceCount, statuses)
           status == MatchStatus(icons[n], statuses)
       IN IF prev.panic \/ status = NilPtr \/ ~(n - 1 < wantServiceCount) THEN prev
          ELSE IF n > Len(prev.result)
               THEN [prev EXCEPT !.panic = TRUE]
               ELSE [result |-> [prev.result EXCEPT ![n].Status = status],
                     gotCount |-> prev.gotCount + 1,
                     panic |-> FALSE]

ServiceNameOf(st) == Services[st.Service].ServiceName

\* the sort left out: the result stays in document order
SortStable_None(s) == s

\* slices.SortStableFunc by service name: stable insertion sort
RECURSIVE SortStable(_)
SortStable(s) ==
  IF Len(s) <= 1 THEN s
  ELSE LET init == SortStable(SubSeq(s, 1, Len(s) - 1))
           x == s[Len(s)]
           k == Cardinality({i \in 1..Len(init) :
                   Compare(ServiceNameOf(init[i]), ServiceNameOf(x)) <= 0})
       IN SubSeq(init, 1, k) \o <<x>> \o SubSeq(init, k + 1, Len(init))

CountMismatch(gotCount, wantServiceCount) == gotCount # wantServiceCount

\* parsePageStatuses: [result, err, panic]
parsePageStatuses(doc, services, statuses) ==
  LET wantServiceCount == Len(services)
      first == CollectServices(doc.names, services)
  IN IF CountMismatch(Len(first), wantServiceCount)
     THEN [result |-> first, err |-> ServiceMismatch, panic |-> FALSE]
     ELSE LET second == AssignStatuses(doc.icons, Len(doc.icons), first,
                                          wantServiceCount, statuses)
          IN IF second.panic
             THEN [result |-> second.result, err |-> Nil, panic |-> TRUE]
             ELSE IF CountMismatch(second.gotCount, wantServiceCount)
                  THEN [result |-> second.result, err |-> StatusMismatch, panic |-> FALSE]
                  ELSE [result |-> SortStable(second.result), err |-> Nil, panic |-> FALSE]

(* ------------------------------ fingerprint ---------------------------- *)
\* dereferencing a nil Status panics
HasUnsetStatus(states) == \E i \in 1..Len(states) : states[i].Status = NilPtr

RECURSIVE HashInput(_)
HashInput(states) ==
  IF states = <<>> THEN ""
  ELSE HashInput(SubSeq(states, 1, Len(states) - 1))
         \o ServiceNameOf(states[Len(states)]) \o ":"
         \o Statuses[states[Len(states)].Status].ClassName

\* sha256 is taken to be injective on the inputs that occur
generateStatusHash(states) == "sha256(" \o HashInput(states) \o ")"

HasErrors(states) == \E i \in 1..Len(states) : Statuses[states[i].Status].IsError

(* ------------------------------ feed items ----------------------------- *)
ListItem(st) == <<ServiceNameOf(st), Statuses[st.Status].Status>>

\* the test of IsError left out: every entry is listed
ErrorItems_All(states) == [i \in 1..Len(states) |-> ListItem(states[i])]

RECURSIVE ErrorItems(_)
ErrorItems(states) ==
  IF states = <<>> THEN <<>>
  ELSE LET rest == ErrorItems(SubSeq(states, 1, Len(states) - 1))
           st == states[Len(states)]
       IN IF Statuses[st.Status].IsError THEN Append(rest, ListItem(st)) ELSE rest

generateErrorFeedItem(states, t) ==
  [Title |-> ToString(Len(ErrorItems(states))) \o " services reporting potential issues",
   Description |-> [heading |-> "Shopify Reports Issues", items |-> ErrorItems(states)],
   PubDate |-> t]

generateOperationalFeedItem(states, t) ==
  [Title |-> OperationalTitle,
   Description |-> [heading |-> "Shopify Is Operational",
                    items |-> [i \in 1..Len(states) |-> ListItem(states[i])]],
   PubDate |-> t]

\* the two kinds of item exchanged
generateFeedItem_Exchanged(states, t) ==
  IF HasErrors(states) THEN generateOperationalFeedItem(states, t)
  ELSE generateErrorFeedItem(states, t)

\* the choice cronJob makes at both places where it builds its item
generateFeedItem(states, t) ==
  IF HasErrors(states) THEN generateErrorFeedItem(states, t)
  ELSE generateOperationalFeedItem(states, t)

(* ------------------------------ state ---------------------------------- *)
\* Times are kept as ranks within their column: UpdatedAt counts the writes
\* of the row, PubDate the items generated so far, CreatedAt the rows
\* inserted so far. Later is larger; times of different columns are never
\* compared.
VARIABLES
  services,    \* what queryServices returned to main
  statuses,    \* what queryStatuses returned to main
  pc,          \* where each process instance is
  job,         \* the locals of each instance's current cronJob run
  invoked,     \* history: eager invocations and firings of the schedule, all instances
  cronLocks,   \* table cron_locks: rows [Key, Deleted]
  lastStatuses, \* table last_statuses, in id order
  feed,        \* table feeds, in insertion (id) order
  page,        \* the document the status page served last, if any
  published,   \* history: the items the generate functions have built
  digestSets,  \* history: times the persisted digest was set to a new value
  pageChanges, \* history: times the page served differed from the one before
  faults,      \* history: injected fetch and store failures
  response     \* what GET /status.rss answered last, if it was asked

vars == <<services, statuses, pc, job, invoked, cronLocks, lastStatuses, feed, page, published,
          digestSets, pageChanges, faults, response>>

\* pointers to rows and documents are sequences: <<>> is nil, <<v>> points to v
NoJob ==
  [mode |-> "none", locked |-> FALSE, lockErr |-> Nil, unlockErr |-> Nil,
   doc |-> <<>>, states |-> <<>>, hash |-> "", err |-> Nil,
   lastStatus |-> <<>>, rssItem |-> <<>>, log |-> <<>>]

\* the catalogs main may find: the seed loaded, or tables AutoMigrate has
\* just created and nothing has filled
Catalogs ==
  { [services |-> Services, statuses |-> Statuses],
    [services |-> <<>>, statuses |-> <<>>] }

Init ==
  /\ \E c \in Catalogs : services = c.services /\ statuses = c.statuses
  /\ pc = [p \in Procs |-> "main"]
  /\ job = [p \in Procs |-> NoJob]
  /\ invoked = 0
  /\ cronLocks = <<>>
  /\ lastStatuses = <<>>
  /\ feed = <<>>
  /\ page = <<>>
  /\ published = 0
  /\ digestSets = 0
  /\ pageChanges = 0
  /\ faults = 0
  /\ response = <<>>

\* a store or network call either works or, within the budget, fails
Outcomes == {"ok", "fail"}

CanHappen(o) == o = "ok" \/ faults < MaxFaults

Charge(o) == IF o = "ok" THEN faults ELSE faults + 1

Logged(p, op, err, wrote) ==
  Append(job[p].log, [op |-> op, err |-> err, wrote |-> wrote])

(* ------------------------------ PostgresLocker ------------------------- *)
\* Where("key=?", key).First(ctx): soft-deleted rows are out of the default scope
FirstCronLock(rows, key) ==
  IF \E i \in 1..Len(rows) : rows[i].Key = key /\ ~rows[i].Deleted
  THEN Nil ELSE RecordNotFound

\* the test of the lookup's result left out: Lock always goes on to Create
LockProceeds_Always(err) == TRUE

\* errors.Is(err, gorm.ErrRecordNotFound) decides whether Lock goes on to Create
LockProceeds(err) == err = RecordNotFound

CreateCronLock(rows, key) == Append(rows, [Key |-> key, Deleted |-> FALSE])

\* the delete without Unscoped: the rows are marked deleted and stay
DeleteCronLocks_Soft(rows, key) ==
  [i \in 1..Len(rows) |->
     IF rows[i].Key = key THEN [rows[i] EXCEPT !.Deleted = TRUE] ELSE rows[i]]

\* Unscoped Where("key=?", key).Delete(ctx): the rows are removed, not marked
DeleteCronLocks(rows, key) == SelectSeq(rows, LAMBDA r : r.Key # key)

RowsFor(rows, key) == {i \in 1..Len(rows) : rows[i].Key = key}

(* ------------------------------ main ----------------------------------- *)
\* no invocation of p is under way
Quiet(q) == pc[q] \in {"main", "idle", "panicked"}

\* at most MaxInvocations invocations in all, MaxOverlap of them at once
MayStart ==
  /\ invoked < MaxInvocations
  /\ Cardinality({q \in Procs : ~Quiet(q)}) < MaxOverlap

\* main calls cronJob itself before c.Start(); the instances are alike, so
\* they are taken to start in the order of their numbers
StartEagerJob(p) ==
  /\ pc[p] = "main"
  /\ \A q \in Procs : q < p => pc[q] # "main"
  /\ MayStart
  /\ invoked' = invoked + 1
  /\ pc' = [pc EXCEPT ![p] = "grab"]
  /\ job' = [job EXCEPT ![p] = [NoJob EXCEPT !.mode = "eager"]]
  /\ UNCHANGED <<response, services, statuses, cronLocks, lastStatuses, feed, page, published,
                 digestSets, pageChanges, faults>>

\* the schedule fires: the cron library invoked Lock("check-status"), the
\* function given to AddFunc, then Unlock("check-status")
Trigger(p) ==
  /\ pc[p] = "idle"
  /\ MayStart
  /\ invoked' = invoked + 1
  /\ pc' = [pc EXCEPT ![p] = "lock_first"]
  /\ job' = [job EXCEPT ![p] = [NoJob EXCEPT !.mode = "cron"]]
  /\ UNCHANGED <<response, services, statuses, cronLocks, lastStatuses, feed, page, published,
                 digestSets, pageChanges, faults>>

\* Lock, up to the result of First
LockFirst(p) ==
  /\ pc[p] = "lock_first"
  /\ \E o \in Outcomes :
       /\ CanHappen(o)
       /\ LET err == IF o = "fail" THEN StoreError
                     ELSE FirstCronLock(cronLocks, CheckStatus)
          IN IF LockProceeds(err)
             THEN /\ pc' = [pc EXCEPT ![p] = "lock_create"]
                  /\ job' = job
             ELSE /\ pc' = [pc EXCEPT ![p] = "idle"]
                  /\ job' = [job EXCEPT ![p].lockErr = AlreadyInUse]
       /\ faults' = Charge(o)
  /\ UNCHANGED <<response, services, statuses, invoked, cronLocks, lastStatuses, feed, page, published,
                 digestSets, pageChanges>>

\* Lock, from Create to its return
LockCreate(p) ==
  /\ pc[p] = "lock_create"
  /\ \E o \in Outcomes :
       /\ CanHappen(o)
       /\ IF o = "fail"
          THEN /\ pc' = [pc EXCEPT ![p] = "idle"]
               /\ job' = [job EXCEPT ![p].lockErr = ErrorObtaining]
               /\ cronLocks' = cronLocks
          ELSE /\ pc' = [pc EXCEPT ![p] = "grab"]
               /\ job' = [job EXCEPT ![p].locked = TRUE]
               /\ cronLocks' = CreateCronLock(cronLocks, CheckStatus)
       /\ faults' = Charge(o)
  /\ UNCHANGED <<response, services, statuses, invoked, lastStatuses, feed, page, published,
                 digestSets, pageChanges>>

Unlock(p) ==
  /\ pc[p] = "unlock"
  /\ \E o \in Outcomes :
       /\ CanHappen(o)
       /\ IF o = "fail"
          THEN /\ job' = [job EXCEPT ![p].unlockErr = StoreError]
               /\ cronLocks' = cronLocks
          ELSE /\ job' = job
               /\ cronLocks' = DeleteCronLocks(cronLocks, CheckStatus)
       /\ faults' = Charge(o)
  /\ pc' = [pc EXCEPT ![p] = "idle"]
  /\ UNCHANGED <<response, services, statuses, invoked, lastStatuses, feed, page, published,
                 digestSets, pageChanges>>

(* ------------------------------ cronJob -------------------------------- *)
\* where a process goes when cronJob returns: main goes on to c.Start(),
\* the cron library to Unlock
ReturnTo(mode) == IF mode = "eager" THEN "idle" ELSE "unlock"

\* the return after a failed grab left out: cronJob parses a nil document
AfterGrab_NoReturn(err) == "parse"

\* what cronJob does with the result of each call
AfterGrab(err) == IF err # Nil THEN "return" ELSE "parse"

\* the return after a parse error left out
AfterParse_NoReturn(err) == "query"

AfterParse(err) == IF err # Nil THEN "return" ELSE "query"

\* the digests not compared: every cycle with a record updates it
AfterQuery_NoCompare(err, last, hash) ==
  IF err # Nil /\ err # RecordNotFound THEN "return"
  ELSE IF err = RecordNotFound THEN "insertLast"
  ELSE "updateLast"

\* the comparison of the digests inverted
AfterQuery_Inverted(err, last, hash) ==
  IF err # Nil /\ err # RecordNotFound THEN "return"
  ELSE IF err = RecordNotFound THEN "insertLast"
  ELSE IF last[1].LastStatusHash # hash THEN "return"
  ELSE "updateLast"

AfterQuery(err, last, hash) ==
  IF err # Nil /\ err # RecordNotFound THEN "return"
  ELSE IF err = RecordNotFound THEN "insertLast"
  ELSE IF last[1].LastStatusHash = hash THEN "return"
  ELSE "updateLast"

AfterInsertLast(err) == "generate"

AfterUpdateLast(err) == IF err # Nil THEN "return" ELSE "generate"

\* one step of process p that moves cronJob to `next`
Goto(p, next) == pc' = [pc EXCEPT ![p] = next]

\* cronJob returns and its locals are gone
Return(p) ==
  /\ pc[p] = "return"
  /\ pc' = [pc EXCEPT ![p] = ReturnTo(job[p].mode)]
  /\ job' = [job EXCEPT ![p] = [NoJob EXCEPT !.mode = job[p].mode,
                                             !.locked = job[p].locked]]
  /\ UNCHANGED <<response, services, statuses, invoked, cronLocks, lastStatuses, feed, page, published,
                 digestSets, pageChanges, faults>>

\* the documents the page may serve now: the one it served last, or, within
\* the budget, any other
Servable ==
  (IF page = <<>> THEN Pages ELSE {page[1]})
    \cup (IF pageChanges < MaxPageChanges THEN Pages ELSE {})

\* what http.Get(url) may do: answer, fail, answer with another code, or,
\* as http.DefaultClient sets no Timeout and the call is given no context,
\* wait without end for a server that accepted the connection and is silent
GrabOutcomes == {"ok", "transport", "non200", "silent"}

\* grabStatusPage (its outcome, with the document d the page serves now),
\* then parsePageStatuses and generateStatusHash, which only compute
GrabAndParse(p) ==
  /\ pc[p] = "grab"
  /\ \E o \in GrabOutcomes, d \in Servable :
       /\ CanHappen(o)
       /\ faults' = Charge(o)
       /\ page' = IF o = "ok" THEN <<d>> ELSE page
       /\ pageChanges' = IF o = "ok" /\ page # <<>> /\ d # page[1]
                         THEN pageChanges + 1 ELSE pageChanges
       /\ LET grabErr == IF o = "transport" THEN FetchError
                         ELSE IF o = "non200" THEN Non200Error ELSE Nil
              doc == IF grabErr = Nil THEN <<d>> ELSE <<>>
          IN IF o = "silent"
             THEN /\ pc' = [pc EXCEPT ![p] = "blocked"]
                  /\ UNCHANGED job
             ELSE IF AfterGrab(grabErr) = "return"
             THEN /\ job' = [job EXCEPT ![p].err = grabErr, ![p].doc = doc]
                  /\ Goto(p, "return")
             ELSE IF doc = <<>>
             THEN /\ pc' = [pc EXCEPT ![p] = "panicked"]
                  /\ UNCHANGED job
             ELSE LET r == parsePageStatuses(doc[1], services, statuses)
                      next == AfterParse(r.err)
                  IN IF r.panic \/ (next # "return" /\ HasUnsetStatus(r.result))
                     THEN /\ pc' = [pc EXCEPT ![p] = "panicked"]
                          /\ UNCHANGED job
                     ELSE /\ job' = [job EXCEPT
                                       ![p].err = r.err,
                                       ![p].doc = doc,
                                       ![p].states = r.result,
                                       ![p].hash = IF next = "return" THEN ""
                                                   ELSE generateStatusHash(r.result)]
                          /\ Goto(p, next)
  /\ UNCHANGED <<response, services, statuses, invoked, cronLocks, lastStatuses, feed, published, digestSets>>

\* queryLastStatus and the comparison of the digests
QueryLastStatus(p) ==
  /\ pc[p] = "query"
  /\ \E o \in Outcomes :
       /\ CanHappen(o)
       /\ LET err == IF o = "fail" THEN StoreError
                     ELSE IF lastStatuses = <<>> THEN RecordNotFound ELSE Nil
              last == IF err = Nil THEN <<lastStatuses[1]>> ELSE <<>>
          IN /\ job' = [job EXCEPT ![p].err = err,
                                   ![p].lastStatus = last,
                                   ![p].log = Logged(p, "queryLastStatus", err, <<>>)]
             /\ Goto(p, AfterQuery(err, last, job[p].hash))
       /\ faults' = Charge(o)
  /\ UNCHANGED <<response, services, statuses, invoked, cronLocks, lastStatuses, feed, page, published,
                 digestSets, pageChanges>>

\* Create without the primary key: the table takes any row
CreateLastStatus_NoKey(rows, row) == [err |-> Nil, rows |-> Append(rows, row)]

\* gorm.G[LastStatus](db).Create: ID is the primary key of last_statuses
CreateLastStatus(rows, row) ==
  IF \E i \in 1..Len(rows) : rows[i].ID = row.ID
  THEN [err |-> DuplicateKey, rows |-> rows]
  ELSE [err |-> Nil, rows |-> Append(rows, row)]

\* insertLastStatus: the row with id 1; the primary key rejects a second one
InsertLastStatus(p) ==
  /\ pc[p] = "insertLast"
  /\ \E o \in Outcomes :
       /\ CanHappen(o)
       /\ LET row == [ID |-> 1, UpdatedAt |-> 1, LastStatusHash |-> job[p].hash]
              created == CreateLastStatus(lastStatuses, row)
              err == IF o = "fail" THEN StoreError ELSE created.err
          IN /\ lastStatuses' = IF err = Nil THEN created.rows ELSE lastStatuses
             /\ digestSets' = IF err = Nil THEN digestSets + 1 ELSE digestSets
             /\ job' = [job EXCEPT ![p].err = err,
                                   ![p].log = Logged(p, "insertLastStatus", err,
                                                     IF err = Nil THEN <<row>> ELSE <<>>)]
             /\ Goto(p, AfterInsertLast(err))
       /\ faults' = Charge(o)
  /\ UNCHANGED <<response, services, statuses, published, invoked, cronLocks, feed, page, pageChanges>>

\* updateLastStatus: Where("id=1").Update; no row to update is no error
UpdateLastStatus(p) ==
  /\ pc[p] = "updateLast"
  /\ \E o \in Outcomes :
       /\ CanHappen(o)
       /\ LET err == IF o = "fail" THEN StoreError ELSE Nil
              rows == [i \in 1..Len(lastStatuses) |->
                         [lastStatuses[i] EXCEPT !.LastStatusHash = job[p].hash,
                                                 !.UpdatedAt = @ + 1]]
          IN /\ lastStatuses' = IF err = Nil THEN rows ELSE lastStatuses
             /\ digestSets' =
                  IF err = Nil /\ lastStatuses # <<>>
                     /\ lastStatuses[1].LastStatusHash # job[p].hash
                  THEN digestSets + 1 ELSE digestSets
             /\ job' = [job EXCEPT ![p].err = err,
                                   ![p].log = Logged(p, "updateLastStatus", err,
                                                     IF err = Nil THEN rows ELSE <<>>)]
             /\ Goto(p, AfterUpdateLast(err))
       /\ faults' = Charge(o)
  /\ UNCHANGED <<response, services, statuses, published, invoked, cronLocks, feed, page, pageChanges>>

\* states.HasErrors() and the generate function it selects
GenerateFeedItem(p) ==
  /\ pc[p] = "generate"
  /\ IF HasUnsetStatus(job[p].states)
     THEN /\ pc' = [pc EXCEPT ![p] = "panicked"]
          /\ job' = job
     ELSE /\ pc' = [pc EXCEPT ![p] = "insertRss"]
          /\ job' = [job EXCEPT ![p].rssItem = <<generateFeedItem(job[p].states, published + 1)>>]
  /\ published' = published + 1
  /\ UNCHANGED <<response, services, statuses, invoked, cronLocks, lastStatuses, feed, page,
                 digestSets, pageChanges, faults>>

\* Create that puts the row in the place of the rows there
CreateFeed_Replace(rows, row) == <<row>>

\* gorm.G[Feed](db).Create: a new row after the ones there
CreateFeed(rows, row) == Append(rows, row)

\* insertRssItem; cronJob returns after it on both paths
InsertRssItem(p) ==
  /\ pc[p] = "insertRss"
  /\ \E o \in Outcomes :
       /\ CanHappen(o)
       /\ LET err == IF o = "fail" THEN StoreError ELSE Nil
              item == job[p].rssItem[1]
              row == [Title |-> item.Title, PubDate |-> item.PubDate,
                      Description |-> item.Description, CreatedAt |-> Len(feed) + 1]
          IN /\ feed' = IF err = Nil THEN CreateFeed(feed, row) ELSE feed
             /\ job' = [job EXCEPT ![p].err = err,
                                   ![p].log = Logged(p, "insertRssItem", err,
                                                     IF err = Nil THEN <<row>> ELSE <<>>)]
             /\ Goto(p, "return")
       /\ faults' = Charge(o)
  /\ UNCHANGED <<response, services, statuses, published, invoked, cronLocks, lastStatuses, page, digestSets, pageChanges>>

(* ------------------------------ GET /status.rss ----------------------- *)
\* Order("created_at DESC"): the rows by falling CreatedAt
RECURSIVE OrderByCreatedAtDesc(_)
OrderByCreatedAtDesc(rows) ==
  IF rows = <<>> THEN <<>>
  ELSE LET i == CHOOSE k \in 1..Len(rows) :
                  \A j \in 1..Len(rows) : rows[j].CreatedAt <= rows[k].CreatedAt
       IN <<rows[i]>> \o OrderByCreatedAtDesc(SubSeq(rows, 1, i - 1)
                                                \o SubSeq(rows, i + 1, Len(rows)))

Limit(rows, limit) == IF limit < Len(rows) THEN SubSeq(rows, 1, limit) ELSE rows

queryFeed(rows, limit) ==
  IF limit > 0 THEN Limit(OrderByCreatedAtDesc(rows), limit)
  ELSE OrderByCreatedAtDesc(rows)

RssItems(rows) ==
  [i \in 1..Len(rows) |->
     [Title |-> rows[i].Title, Description |-> rows[i].Description,
      PubDate |-> rows[i].PubDate]]

\* an instance serves requests once main has reached muxer.Start()
Serving(p) == pc[p] # "panicked" /\ (pc[p] = "idle" \/ job[p].mode = "cron")

statusRssHandler ==
  /\ \E p \in Procs : Serving(p)
  /\ \E o \in Outcomes :
       /\ CanHappen(o)
       /\ response' = IF o = "fail" THEN <<[status |-> 500, items |-> <<>>]>>
                      ELSE <<[status |-> 200, items |-> RssItems(queryFeed(feed, 10))]>>
       /\ faults' = Charge(o)
  /\ UNCHANGED <<services, statuses, pc, job, invoked, cronLocks, lastStatuses,
                 feed, page, published, digestSets, pageChanges>>

(* ------------------------------ specification -------------------------- *)
Step(p) ==
  \/ StartEagerJob(p)
  \/ Trigger(p)
  \/ LockFirst(p)
  \/ LockCreate(p)
  \/ GrabAndParse(p)
  \/ QueryLastStatus(p)
  \/ InsertLastStatus(p)
  \/ UpdateLastStatus(p)
  \/ GenerateFeedItem(p)
  \/ InsertRssItem(p)
  \/ Return(p)
  \/ Unlock(p)

Next == (\E p \in Procs : Step(p)) \/ statusRssHandler

Spec == Init /\ [][Next]_vars

\* the same steps with the invocations run one at a time
NextSerial == \E p \in Procs : (\A q \in Procs \ {p} : Quiet(q)) /\ Step(p)

SpecSerial == Init /\ [][NextSerial]_vars

\* a goroutine that can take a step takes it
SpecSerialFair == SpecSerial /\ WF_vars(NextSerial)

\* The parser on every document: instance 1 starts against a page that
\* serves any document of AllDocs, with either catalog, and runs its eager
\* invocation, the first run on an empty store.
InitParse ==
  /\ \E c \in Catalogs : services = c.services /\ statuses = c.statuses
  /\ \E d \in AllDocs : page = <<d>>
  /\ pc = [p \in Procs |-> "main"]
  /\ job = [p \in Procs |-> NoJob]
  /\ invoked = 0
  /\ cronLocks = <<>>
  /\ lastStatuses = <<>>
  /\ feed = <<>>
  /\ published = 0
  /\ digestSets = 0
  /\ pageChanges = 0
  /\ faults = 0
  /\ response = <<>>

NextParse ==
  \/ StartEagerJob(1)
  \/ GrabAndParse(1)
  \/ QueryLastStatus(1)
  \/ InsertLastStatus(1)
  \/ GenerateFeedItem(1)
  \/ InsertRssItem(1)
  \/ Return(1)

SpecParse == InitParse /\ [][NextParse]_vars

\* The instances started together: each runs the eager invocation of its
\* main, which takes no lock, so the invocations interleave step by step,
\* and each serves requests from then on.
EagerStep(p) ==
  \/ StartEagerJob(p)
  \/ GrabAndParse(p)
  \/ QueryLastStatus(p)
  \/ InsertLastStatus(p)
  \/ UpdateLastStatus(p)
  \/ GenerateFeedItem(p)
  \/ InsertRssItem(p)
  \/ Return(p)

NextOverlap == \E p \in Procs : EagerStep(p)

\* main found the seeded catalog
InitOverlap == Init /\ services = Services /\ statuses = Statuses

SpecOverlap == InitOverlap /\ [][NextOverlap]_vars

\* One instance alone: its eager invocation, the firings of its schedule,
\* and the requests it serves while they run.
NextInstance == Step(1) \/ statusRssHandler

SpecInstance == Init /\ [][NextInstance]_vars

(* ------------------------------ properties ----------------------------- *)
Returned(p) == pc[p] = "return"

StoreSteps == {"query", "insertLast", "updateLast", "insertRss"}

Failed(err) == err # Nil /\ err # RecordNotFound

\* C1: two callers of Lock with the same key never both succeed: no
\* reachable state holds more than one CronLock row for one key.
C1_OneLockRowPerKey == Cardinality(RowsFor(cronLocks, CheckStatus)) <= 1

\* C2: a process that is about to run queryLastStatus, insertLastStatus,
\* updateLastStatus or insertRssItem has acquired the lock "check-status"
\* for this invocation, the eager invocation included.
C2_StoreAccessOnlyUnderLock ==
  \A p \in Procs : pc[p] \in StoreSteps => job[p].locked

\* C3: overlapping runs do not duplicate feed entries: with no failed call
\* at all, the feed holds at most one entry for the first observation and
\* one for each change of the page.
C3_OneEntryPerChange == faults = 0 => Len(feed) <= pageChanges + 1

\* C4: with the invocations run one at a time, whenever none is running the
\* number of Feed entries equals the number of times the persisted digest
\* was set to a new value, failing cycles included.
C4_FeedCountEqualsDigestSets ==
  (\A p \in Procs : Quiet(p)) => Len(feed) = digestSets

NobodyRunning == \A p \in Procs : Quiet(p)

\* C5: with the invocations run one at a time on an empty store, no failed
\* call and one and the same parseable document grabbed every time, the
\* feed holds exactly one entry when the first invocation is over, and
\* still one when the second and every later invocation is over.
C5_Idempotent ==
  (/\ faults = 0
   /\ invoked >= 1
   /\ NobodyRunning
   /\ pageChanges = 0
   /\ page # <<>>
   /\ parsePageStatuses(page[1], services, statuses).err = Nil)
  => Len(feed) = 1

C5_Witness ==
  /\ faults = 0
  /\ invoked = 2
  /\ NobodyRunning
  /\ pageChanges = 0
  /\ page = <<PageErr>>
  /\ Len(feed) = 1

NoErrorKind(states) == \A i \in 1..Len(states) : ~Statuses[states[i].Status].IsError

FirstRun(p) ==
  /\ Returned(p)
  /\ Len(job[p].log) >= 1
  /\ job[p].log[1].err = RecordNotFound

\* C6: an invocation that found no LastStatus record calls insertLastStatus
\* and then insertRssItem, once each; when the insert succeeds the record
\* holds the new digest, and when the append succeeds the entry is in the
\* feed and, if no parsed status is an error kind, carries the title
\* "All services appear to be operational".
C6_FirstRun ==
  \A p \in Procs : FirstRun(p) =>
    LET log == job[p].log
    IN /\ Len(log) = 3
       /\ log[2].op = "insertLastStatus"
       /\ log[3].op = "insertRssItem"
       /\ log[2].err = Nil =>
            /\ Len(log[2].wrote) = 1
            /\ log[2].wrote[1].LastStatusHash = generateStatusHash(job[p].states)
            /\ log[2].wrote[1].ID = 1
            /\ lastStatuses # <<>>
       /\ log[3].err = Nil =>
            /\ Len(log[3].wrote) = 1
            /\ \E i \in 1..Len(feed) : feed[i] = log[3].wrote[1]
            /\ NoErrorKind(job[p].states) => log[3].wrote[1].Title = OperationalTitle

C6_Witness ==
  \E p \in Procs :
    /\ FirstRun(p)
    /\ Len(job[p].log) = 3
    /\ job[p].log[2].err = Nil
    /\ job[p].log[3].err = Nil
    /\ NoErrorKind(job[p].states)
    /\ lastStatuses = job[p].log[2].wrote
    /\ feed = job[p].log[3].wrote

Unchanged(p) ==
  /\ Len(job[p].log) >= 1
  /\ job[p].log[1].op = "queryLastStatus"
  /\ job[p].log[1].err = Nil
  /\ job[p].lastStatus # <<>>
  /\ job[p].lastStatus[1].LastStatusHash = job[p].hash

\* C7: an invocation whose queryLastStatus returned a record with the digest
\* of the new observation returns at once: it makes no further store call,
\* so it appends no Feed entry, and the record in the store when it returns
\* is the record it read, digest and update timestamp alike.
C7_UnchangedWritesNothing ==
  \A p \in Procs : Unchanged(p) =>
    /\ Returned(p)
    /\ Len(job[p].log) = 1
    /\ lastStatuses = job[p].lastStatus

C7_Witness ==
  \E p \in Procs :
    /\ Unchanged(p)
    /\ Returned(p)
    /\ lastStatuses = job[p].lastStatus
    /\ Len(feed) = 1

FetchOrParseFailure ==
  {FetchError, Non200Error, ServiceMismatch, StatusMismatch}

\* C8: an invocation in which grabStatusPage or parsePageStatuses returned
\* an error returns without a single store call: it reads and writes
\* neither the LastStatus record nor the Feed.
C8_FailedFetchOrParseTouchesNothing ==
  \A p \in Procs : job[p].err \in FetchOrParseFailure =>
    Returned(p) /\ job[p].log = <<>>

C8_Witness ==
  /\ \E p \in Procs :
       /\ Returned(p)
       /\ job[p].err = StatusMismatch
       /\ job[p].mode = "cron"
       /\ job[p].log = <<>>
  /\ lastStatuses # <<>>
  /\ feed # <<>>

\* C9: after a store call of an invocation has failed, the invocation makes
\* no further store call; in particular insertRssItem is not called after a
\* failed insertLastStatus or updateLastStatus.
C9_StoreFailureAborts ==
  \A p \in Procs : \A i, j \in 1..Len(job[p].log) :
    (i < j) => ~Failed(job[p].log[i].err)

\* C10: when Unlock returns without error no CronLock row for the key is
\* left, soft-deleted rows included, and the lookup of a Lock that follows
\* immediately finds no record, so that Lock goes on to create its row.
C10_ReleaseLeavesNoResidue ==
  [][\A p \in Procs :
       (pc[p] = "unlock" /\ pc'[p] = "idle" /\ job'[p].unlockErr = Nil)
       => /\ RowsFor(cronLocks', CheckStatus) = {}
          /\ LockProceeds(FirstCronLock(cronLocks', CheckStatus))]_vars

C10_Witness ==
  \E p \in Procs :
    /\ pc[p] = "lock_create"
    /\ \E q \in Procs \ {p} :
         /\ pc[q] = "idle"
         /\ job[q].mode = "cron"
         /\ job[q].locked
         /\ job[q].unlockErr = Nil
    /\ cronLocks = <<>>

InCycle == {"query", "insertLast", "updateLast", "generate", "insertRss", "return"}

\* C11: no step of a cycle panics, whatever fetch, parse and store calls
\* return: no process ends in a panic, a cycle that goes past the parser
\* holds a document and an observation whose every Status is set, and the
\* digests are compared only when queryLastStatus gave a record.
C11_ErrorsContained ==
  \A p \in Procs :
    /\ pc[p] # "panicked"
    /\ (pc[p] \in InCycle /\ job[p].err \notin FetchOrParseFailure) =>
          /\ job[p].doc # <<>>
          /\ ~HasUnsetStatus(job[p].states)
    /\ pc[p] = "updateLast" => job[p].lastStatus # <<>>

C11_Witness ==
  /\ \E p \in Procs : Returned(p) /\ job[p].err = StoreError /\ Len(job[p].log) = 3
  /\ faults = 1
  /\ feed = <<>>

\* C12: every cycle ends: a process that has started to fetch the page is
\* later back with its scheduler, no invocation of it under way.
C12_EveryCycleEnds == \A p \in Procs : (pc[p] = "grab") ~> Quiet(p)

Limits == (0 - 1)..MaxLimit

Min(a, b) == IF a < b THEN a ELSE b

\* rows holds its entries by falling PubDate, and no entry of all is newer
\* than one of rows without being in rows
NewestByPubDate(rows, all) ==
  /\ \A i, j \in 1..Len(rows) : i < j => rows[i].PubDate >= rows[j].PubDate
  /\ \A i \in 1..Len(rows) : \E k \in 1..Len(all) : all[k] = rows[i]
  /\ \A k \in 1..Len(all) :
       (\A i \in 1..Len(rows) : rows[i] # all[k])
         => \A i \in 1..Len(rows) : all[k].PubDate <= rows[i].PubDate

\* C13: for every limit queryFeed returns the min(limit, n) entries with the
\* newest PubDate, newest first, and all n entries when limit <= 0.
C13_QueryFeedNewestFirst ==
  \A limit \in Limits :
    LET rows == queryFeed(feed, limit)
    IN /\ Len(rows) = IF limit <= 0 THEN Len(feed) ELSE Min(limit, Len(feed))
       /\ NewestByPubDate(rows, feed)

\* the name elements of a document that are the name of a service, and its
\* icon elements that have the class of a status
MatchingNames(doc) ==
  {i \in 1..Len(doc.names) : MatchService(doc.names[i], services) # NilPtr}

MatchingIcons(doc) ==
  {i \in 1..Len(doc.icons) : MatchStatus(doc.icons[i], statuses) # NilPtr}

Parsed(p) == pc[p] \in InCycle /\ job[p].doc # <<>>

\* C14: when the number of matching name elements or the number of
\* matching icon elements of the page differs from the number of services,
\* parsePageStatuses returns a mismatch error and cronJob returns without
\* using the result.
C14_MismatchFails ==
  \A p \in Procs :
    (/\ Parsed(p)
     /\ \/ Cardinality(MatchingNames(job[p].doc[1])) # Len(services)
        \/ Cardinality(MatchingIcons(job[p].doc[1])) # Len(services))
    => /\ job[p].err \in {ServiceMismatch, StatusMismatch}
       /\ Returned(p)

ParsedOK(p) == Parsed(p) /\ job[p].err \notin FetchOrParseFailure

\* C15: an observation parsePageStatuses returned without error has as many
\* entries as there are services and holds every service exactly once.
C15_EveryServiceOnce ==
  \A p \in Procs : ParsedOK(p) =>
    /\ Len(job[p].states) = Len(services)
    /\ \A k \in 1..Len(services) :
         Cardinality({i \in 1..Len(job[p].states) : job[p].states[i].Service = k}) = 1

PairsOf(states) == {<<states[i].Service, states[i].Status>> : i \in 1..Len(states)}

\* a set of pairs that gives each service one status
IsMapping(pairs) == \A a, b \in pairs : a[1] = b[1] => a[2] = b[2]

Perms(n) == {f \in [1..n -> 1..n] : \A i, j \in 1..n : f[i] = f[j] => i = j}

\* the page that presents the (service name, indicator) pairs of doc, and
\* nothing else, in the order perm
Rearranged(doc, perm) ==
  LET names == SelectSeq(doc.names, LAMBDA t : MatchService(t, services) # NilPtr)
  IN Doc([i \in 1..Len(services) |-> names[perm[i]]],
         [i \in 1..Len(services) |-> doc.icons[perm[i]]])

\* C16: pages that present the same mapping of services to statuses in
\* different document orders get the same digest: every rearrangement of
\* the pairs of a parsed page parses to the same pairs and to the digest of
\* the page itself.
C16_DigestOrderIndependent ==
  \A p \in Procs :
    (ParsedOK(p) /\ IsMapping(PairsOf(job[p].states))) =>
      \A perm \in Perms(Len(services)) :
        LET r == parsePageStatuses(Rearranged(job[p].doc[1], perm), services, statuses)
        IN /\ r.err = Nil
           /\ PairsOf(r.result) = PairsOf(job[p].states)
           /\ generateStatusHash(r.result) = job[p].hash

C16_Witness ==
  /\ ParsedOK(1)
  /\ job[1].doc = <<Doc(<<"Checkout", "Welcome", "Admin">>, <<Out, Op, Deco>>)>>
  /\ job[1].hash =
       generateStatusHash(parsePageStatuses(Doc(<<"Admin", "Checkout">>, <<Op, Out>>),
                                            services, statuses).result)
  /\ job[1].hash # generateStatusHash(parsePageStatuses(PageOK, services, statuses).result)

InError(states) == {i \in 1..Len(states) : Statuses[states[i].Status].IsError}

\* C17: the item cronJob builds, and the entry it appends, is an error
\* summary exactly when the observation of the cycle has an entry in an
\* error status; an error summary states the number k of such entries in
\* its title and lists exactly those k, an operational item has the fixed
\* title and lists every entry of the observation.
C17_StyleFollowsObservation ==
  \A p \in Procs :
    (pc[p] \in {"insertRss", "return"} /\ job[p].rssItem # <<>>) =>
      LET item == job[p].rssItem[1]
          st == job[p].states
          k == Cardinality(InError(st))
          items == item.Description.items
          log == job[p].log
      IN /\ (item.Title = OperationalTitle) <=> (k = 0)
         /\ k > 0 =>
              /\ item.Title = ToString(k) \o " services reporting potential issues"
              /\ item.Description.heading = "Shopify Reports Issues"
              /\ Len(items) = k
              /\ \A i \in 1..Len(st) :
                   (i \in InError(st)) <=> (\E j \in 1..Len(items) : items[j] = ListItem(st[i]))
         /\ k = 0 =>
              /\ item.Description.heading = "Shopify Is Operational"
              /\ Len(items) = Len(st)
              /\ \A i \in 1..Len(st) : items[i] = ListItem(st[i])
         /\ (Returned(p) /\ log[Len(log)].op = "insertRssItem" /\ log[Len(log)].err = Nil) =>
              /\ feed # <<>>
              /\ feed[Len(feed)] = log[Len(log)].wrote[1]
              /\ feed[Len(feed)].Title = item.Title
              /\ feed[Len(feed)].Description = item.Description

C17_Witness ==
  \E p \in Procs :
    /\ Returned(p)
    /\ Len(job[p].log) = 3
    /\ job[p].log[2].op = "updateLastStatus"
    /\ job[p].log[3].err = Nil
    /\ job[p].doc = <<PageErr>>
    /\ Len(feed) = 2
    /\ feed[1].Title = OperationalTitle
    /\ feed[2].Title = "1 services reporting potential issues"
    /\ feed[2].Description.items = << <<"Admin", "Major Outage">> >>

\* C18: the fingerprint record is a singleton: last_statuses never holds
\* more than one row and its row has id 1; the row appears only by the
\* insert of a run whose query found no record; once there it is never
\* removed, an insert leaves it as it is, and it changes only by the update
\* of a run.
C18_LastStatusSingleton ==
  [][ /\ Len(lastStatuses) <= 1
      /\ Len(lastStatuses') <= 1
      /\ \A i \in 1..Len(lastStatuses') : lastStatuses'[i].ID = 1
      /\ (lastStatuses = <<>> /\ lastStatuses' # <<>>) =>
            \E p \in Procs :
              /\ pc[p] = "insertLast" /\ pc'[p] # pc[p]
              /\ job[p].lastStatus = <<>>
              /\ job[p].log = <<[op |-> "queryLastStatus", err |-> RecordNotFound,
                                 wrote |-> <<>>]>>
      /\ lastStatuses # <<>> =>
            /\ Len(lastStatuses') = 1
            /\ lastStatuses'[1].ID = lastStatuses[1].ID
            /\ (\E p \in Procs : pc[p] = "insertLast" /\ pc'[p] # pc[p]) =>
                  lastStatuses' = lastStatuses
            /\ lastStatuses' # lastStatuses =>
                  \E p \in Procs : pc[p] = "updateLast" /\ pc'[p] # pc[p]
    ]_vars

\* two overlapping first runs: both found no record, one inserted the row
\* and the insert of the other was rejected
C18_Witness ==
  /\ Len(lastStatuses) = 1
  /\ lastStatuses[1].UpdatedAt = 1
  /\ \E p, q \in Procs :
       /\ p # q
       /\ pc[p] = "generate" /\ job[p].err = DuplicateKey
       /\ job[q].log # <<>>
       /\ job[q].log[Len(job[q].log)].op \in {"insertLastStatus", "insertRssItem"}
       /\ Len(job[q].log) >= 2
       /\ job[q].log[2] = [op |-> "insertLastStatus", err |-> Nil,
                           wrote |-> <<lastStatuses[1]>>]

\* the rows of feeds a cycle has inserted so far
Inserted(log) ==
  {i \in 1..Len(log) : log[i].op = "insertRssItem" /\ log[i].err = Nil}

\* C19: the feed is append-only: no step, of a cycle or of a feed read,
\* changes or removes a row of feeds; the table changes only by the
\* insertRssItem of a cycle that has inserted nothing yet, which puts one
\* row after the ones there and ends the cycle; a feed read leaves the
\* table as it is.
C19_FeedAppendOnly ==
  [][ /\ Len(feed') >= Len(feed)
      /\ SubSeq(feed', 1, Len(feed)) = feed
      /\ Len(feed') <= Len(feed) + 1
      /\ \A p \in Procs : Cardinality(Inserted(job'[p].log)) <= 1
      /\ feed' # feed =>
            \E p \in Procs :
              /\ pc[p] = "insertRss" /\ pc'[p] = "return"
              /\ Inserted(job[p].log) = {}
              /\ Inserted(job'[p].log) = {Len(job'[p].log)}
              /\ job'[p].log[Len(job'[p].log)].wrote = <<feed'[Len(feed')]>>
      /\ response' # response => feed' = feed
    ]_vars

\* a second entry is in the feed after the first, and the feed was read
\* meanwhile
C19_Witness ==
  /\ Len(feed) = 2
  /\ feed[1].CreatedAt = 1 /\ feed[2].CreatedAt = 2
  /\ feed[1].Title = OperationalTitle
  /\ feed[2].Title # OperationalTitle
  /\ response = <<[status |-> 200,
                   items |-> <<[Title |-> feed[1].Title,
                                Description |-> feed[1].Description,
                                PubDate |-> feed[1].PubDate]>>]>>
  /\ \E p \in Procs : Returned(p) /\ Inserted(job[p].log) # {}

\* C20: a page on which no element matches a known service name never gives
\* an observation: parsePageStatuses returns the mismatch error for it and
\* cronJob returns without a call to the store, whatever the catalog holds.
C20_NoEmptyObservation ==
  \A p \in Procs :
    (Parsed(p) /\ MatchingNames(job[p].doc[1]) = {}) =>
      /\ job[p].err = ServiceMismatch
      /\ Returned(p)
      /\ job[p].log = <<>>

\* the steps of Lock
LockSteps == {"lock_first", "lock_create"}

\* C21: a Lock that returns an error has created no CronLock row: when the
\* lookup finds a row or the store fails it, Lock returns the "already in
\* use" error without going on to the insert; a Lock whose insert fails
\* returns its error; in both cases the step leaves cron_locks as it was,
\* and only the Lock that returns nil adds a row, one, for its key.
C21_FailedLockCreatesNothing ==
  [][\A p \in Procs :
       (pc[p] \in LockSteps /\ pc'[p] # pc[p]) =>
         /\ (/\ pc[p] = "lock_first"
             /\ \/ FirstCronLock(cronLocks, CheckStatus) # RecordNotFound
                \/ faults' # faults)
            => /\ pc'[p] = "idle"
               /\ job'[p].lockErr = AlreadyInUse
         /\ pc'[p] = "idle" =>
               /\ job'[p].lockErr \in {AlreadyInUse, ErrorObtaining}
               /\ ~job'[p].locked
               /\ cronLocks' = cronLocks
         /\ pc'[p] = "lock_create" => cronLocks' = cronLocks
         /\ pc'[p] = "grab" =>
               /\ job'[p].lockErr = Nil
               /\ cronLocks' = Append(cronLocks, [Key |-> CheckStatus, Deleted |-> FALSE])
    ]_vars

\* a Lock found the row an Unlock that failed had left, and returned the
\* "already in use" error; the row is the only one
C21_Witness ==
  /\ Len(cronLocks) = 1
  /\ faults = 1
  /\ \E p, q \in Procs :
       /\ pc[p] = "idle" /\ job[p].lockErr = AlreadyInUse
       /\ pc[q] = "idle" /\ job[q].unlockErr = StoreError

\* the texts of the service-name elements of doc, in document order
ServiceNameElements(doc) ==
  SelectSeq(doc.names, LAMBDA t : MatchService(t, services) # NilPtr)

\* C22: an observation parsePageStatuses returned without error has a
\* Status set in every entry, and its entries are, in some order, the
\* pairs of the k-th service-name element of the page with the kind of the
\* k-th status-indicator element; a cycle that holds a digest or a feed
\* item holds an observation without an unset Status.
C22_StatusSetByPosition ==
  \A p \in Procs :
    /\ ParsedOK(p) =>
         LET doc == job[p].doc[1]
             names == ServiceNameElements(doc)
             states == job[p].states
         IN /\ ~HasUnsetStatus(states)
            /\ Len(states) = Len(names)
            /\ Len(doc.icons) >= Len(states)
            /\ \E perm \in Perms(Len(states)) :
                 \A k \in 1..Len(states) :
                   states[perm[k]] = [Service |-> MatchService(names[k], services),
                                      Status |-> MatchStatus(doc.icons[k], statuses)]
    /\ (job[p].hash # "" \/ job[p].rssItem # <<>>) => ~HasUnsetStatus(job[p].states)

\* a page with a text between its two services and the outage first: the
\* feed item was built from the sorted observation, each service with the
\* kind of its own indicator
C22_Witness ==
  /\ pc[1] = "insertRss"
  /\ job[1].doc = <<Doc(<<"Welcome", "Checkout", "Admin">>, <<Out, Op>>)>>
  /\ job[1].states = << [Service |-> 1, Status |-> 1], [Service |-> 2, Status |-> 2] >>
  /\ job[1].rssItem # <<>>
  /\ job[1].rssItem[1].Title = "1 services reporting potential issues"

====
